---- MODULE Spec2Model ----
(***************************************************************************)
(* External-account credential lifecycle and order retrieval of the        *)
(* Uni-test backend (Backend/routes/amazon.js, the amazonDebug routes and  *)
(* the amazonSpApi service variants).                                      *)
(*                                                                         *)
(* Time is counted in minutes.  Tokens are natural numbers handed out by   *)
(* the upstream token endpoint; Absent stands for JavaScript's undefined.  *)
(***************************************************************************)
EXTENDS Integers, Sequences, FiniteSets, TLC

\* ------------------------------------------------------------- bounds
NumRequests == 2
MaxPages == 6
MaxTime == 2
MaxIssued == 2
MaxTotal == 260
MaxSortLen == 5
MaxListPages == 3
MaxPageLen == 2
MaxRotations == 3

\* -------------------------------------------------- program constants
\* bufferTime = 5 * 60 * 1000 ms, here in minutes
BufferTime == 5
\* undefined / missing field
Absent == 0
\* tokenData.selling_partner_id || tokenData.seller_id of the one seller account
SellerId == 1

VARIABLES
  db,      \* the persisted user.amazonAuth of the account
  req,     \* the HTTP requests in flight: req[r] is request r's handler state
  now,     \* the wall clock (Date.now()), minutes
  issued,  \* number of tokens the upstream token endpoint has issued
  env,     \* the upstream as one retrieval meets it
  ord,     \* one call of getRecentOrders / getOrderCount / getOrdersAlternative
  mock,    \* the synthetic order set being generated
  fx       \* one call of a function of the services: its input and its result

tokVars == <<db, req, now, issued>>

ordVars == <<env, ord, mock>>

vars == <<db, req, now, issued, env, ord, mock, fx>>

Requests == 1..NumRequests

\* expires_in of a token response, minutes
ExpiresInChoices == {BufferTime + 1, BufferTime + 2}

Fields == {"accessToken", "refreshToken", "tokenExpiresAt", "sellerId"}

\* user.amazonAuth = undefined
NoAuth ==
  [accessToken |-> Absent, refreshToken |-> Absent, tokenExpiresAt |-> Absent,
   sellerId |-> Absent]

NoTokenData ==
  [access_token |-> Absent, refresh_token |-> Absent, expires_in |-> Absent,
   seller_id |-> Absent]

EnsureKinds == {"orders", "status"}
\* "callbackLegacy" is the GET /callback of the older router in the same file
CallbackKinds == {"callback", "callbackLegacy"}
Kinds == {"orders", "status", "debug", "testconn", "callback", "callbackLegacy", "disconnect"}

\* req.query of GET /callback: an error parameter, a code parameter
NoQuery == [error |-> FALSE, code |-> FALSE]
Queries == [error : BOOLEAN, code : BOOLEAN]

\* error.response.data.error_description and error.message of a failed token call
NoFailure == [error_description |-> "", message |-> ""]
FailureResponses ==
  [error_description : {"", "invalid_grant"}, message : {"Request failed with status code 400"}]

IdleReq ==
  [kind |-> "none", pc |-> "idle",
   loaded |-> NoAuth,        \* the document as User.findById returned it
   user |-> NoAuth,          \* the handler's in-memory document
   dirty |-> {},             \* modified paths, written by user.save()
   checked |-> FALSE,        \* a freshness check was made
   checkNow |-> 0,           \* now at the freshness check
   sawStale |-> FALSE,       \* the check found now > expiry - buffer
   refreshCalls |-> 0,       \* refresh grants this request sent to the token endpoint
   exchangeCalls |-> 0,      \* authorization_code grants it sent
   tokenData |-> NoTokenData,\* the token response it received
   receivedAt |-> 0,         \* Date.now() when the token response was applied
   query |-> NoQuery,        \* the callback's query parameters
   failure |-> NoFailure,    \* the failure the token endpoint answered the grant with
   errMsg |-> "",            \* what the error thrown by exchangeCode / refreshAccessToken carries
   saves |-> 0,              \* completed user.save() calls
   accessToken |-> Absent,   \* the token the handler goes on with
   presented |-> FALSE,      \* that token was sent to the external API
   err |-> "none",
   overlap |-> {}]           \* requests in flight when this one started

InFlight(r) == req[r].pc \notin {"idle", "done"}

\* a buffer twice as wide as the one the code uses
IsExpiring_DoubleBuffer(t, expiry) == t > expiry - 2 * BufferTime

\* amazon.js:25  now.getTime() > expiryTime.getTime() - bufferTime
IsExpiring(t, expiry) == t > expiry - BufferTime

\* ------------------------------------------------ order retrieval, data

\* MaxResultsPerPage of getRecentOrders
MaxResultsPerPage == 50
\* while (nextToken && allOrders.length < 200)
TotalCap == 200
\* MaxResultsPerPage of getOrderCount
CountPageSize == 100
\* thirtyDaysAgo.setDate(now.getDate() - 30)
WindowDays == 30
HoursPerDay == 24

\* The getRecentOrders / getOrderCount implementations of the repository:
\*   "mock"   services variant with checkOrdersApiAccess and the mock fallback
\*   "fixed"  amazonSpApiFixed.js, optional restricted-data token, capped loop
\*   "rdt"    amazonSpApi.js, restricted-data token required, uncapped loop
\*   "basic"  amazonSpApi.js, no restricted-data token, uncapped loop
\*   "alt"    amazonSpApiFixed.js getOrdersAlternative
Impls == {"mock", "fixed", "rdt", "basic", "alt"}
CappedImpls == {"mock", "fixed"}

\* what the caller receives: labelled is the isRealData: false / demo message
\* that getOrdersAlternative puts around its orders
NoOutcome == [kind |-> "none", synthetic |-> FALSE, labelled |-> FALSE, n |-> 0, err |-> "none"]

\* total: the orders the upstream holds in the window, where it answers by the book
NoEnv == [probeOk |-> FALSE, hourOfDay |-> 0, total |-> 0]

\* no getRecentOrders result is waiting in the Promise.all of GET /orders
NoResult == -1

NoOrd ==
  [impl |-> "none", fn |-> "none", pc |-> "idle",
   hasRdt |-> FALSE,        \* restrictedToken is not null
   allOrdersLen |-> 0,      \* allOrders.length
   nextToken |-> FALSE,     \* nextToken is not null
   pageRequests |-> 0,      \* requests of the pagination loop (or the one count request)
   orderCalls |-> 0,        \* all requests sent to the order endpoint
   probeCalls |-> 0,        \* requests sent to the participation / seller endpoints
   got403 |-> FALSE,        \* the order endpoint answered 403 in this call
   failed |-> {},           \* statuses of the order-endpoint requests that failed
   rdtFailed |-> FALSE,     \* the restricted-data-token request failed
   tokenSent |-> "none",    \* x-amz-access-token of the last order request: "base" or "rdt"
   routeOrders |-> NoResult,\* orders.length of the same GET /orders response
   emptySeen |-> FALSE,     \* a page came back with no orders
   noCursorSeen |-> FALSE,  \* a page came back without NextToken
   allFull |-> TRUE,        \* every page so far was full and carried NextToken
   outcome |-> NoOutcome]

NoMock == [i |-> 0, bound |-> 0, statuses |-> {}, dates |-> {}]

\* Page sizes the upstream answers with
PageSizes == {0, MaxResultsPerPage \div 2, MaxResultsPerPage - 1, MaxResultsPerPage}
CountPageSizes == {0, 1, CountPageSize}

\* HTTP status of a failed call; NoStatus is a failure without a response
NoStatus == 0
ErrorStatuses == {403, 401, 429, NoStatus}

\* no function call is under way
NoFx == [fn |-> "none", impl |-> "none", pc |-> "idle"]

\* ------------------------------------------------ token lifecycle

\* the guard left out
MissingRefreshToken_NoGuard(u) == FALSE

\* amazon.js:28  if (!user.amazonAuth.refreshToken) throw ...
MissingRefreshToken(u) == u.refreshToken = Absent

\* the message of the error refreshAccessToken throws:
\* error.response?.data?.error_description || error.message
RefreshErrorMessage(resp) ==
  IF resp.error_description # "" THEN resp.error_description ELSE resp.message

\* services refreshAccessToken up to the POST: the guard on the refresh token,
\* then the refresh_token grant is sent and the handler awaits the response
RefreshAccessToken(q) ==
  IF q.user.refreshToken = Absent
    THEN [q EXCEPT !.err = "RefreshFailed", !.errMsg = "Refresh token is required",
                   !.pc = "done"]
    ELSE [q EXCEPT !.refreshCalls = @ + 1, !.pc = "refreshing"]

\* ensureValidAccessToken from its entry to its first await (or its return)
EnsureValidAccessToken(q, t) ==
  IF q.user.accessToken = Absent
    THEN [q EXCEPT !.err = "NotConnected", !.pc = "done"]
    ELSE LET stale == IsExpiring(t, q.user.tokenExpiresAt)
             c == [q EXCEPT !.checked = TRUE, !.checkNow = t, !.sawStale = stale]
         IN  IF stale
               THEN IF MissingRefreshToken(c.user)
                      THEN [c EXCEPT !.err = "NoRefreshToken", !.pc = "done"]
                      ELSE RefreshAccessToken(c)
               ELSE [c EXCEPT !.accessToken = c.user.accessToken, !.pc = "api"]

\* ensureValidAccessToken after the token response: the document is updated
\* and user.save() is awaited
ApplyRefresh(q, td, t) ==
  [q EXCEPT !.tokenData = td,
            !.receivedAt = t,
            !.user = [accessToken |-> td.access_token,
                      refreshToken |-> IF td.refresh_token # Absent
                                         THEN td.refresh_token
                                         ELSE q.user.refreshToken,
                      tokenExpiresAt |-> t + td.expires_in,
                      sellerId |-> q.user.sellerId],
            !.dirty = {"accessToken", "tokenExpiresAt"}
                        \cup (IF td.refresh_token # Absent THEN {"refreshToken"} ELSE {}),
            !.pc = "saving"]

\* GET /debug: the inline freshness check, without the refresh-token guard
DebugEnsureFresh(q, t) ==
  IF q.user.accessToken = Absent
    THEN [q EXCEPT !.err = "NotConnected", !.pc = "done"]
    ELSE LET stale == IsExpiring(t, q.user.tokenExpiresAt)
             c == [q EXCEPT !.checked = TRUE, !.checkNow = t, !.sawStale = stale,
                            !.accessToken = q.user.accessToken]
         IN  IF stale THEN RefreshAccessToken(c) ELSE [c EXCEPT !.pc = "api"]

\* GET /debug after the token response: the refresh token of the response is not stored
DebugApplyRefresh(q, td, t) ==
  [q EXCEPT !.tokenData = td,
            !.receivedAt = t,
            !.accessToken = td.access_token,
            !.user = [q.user EXCEPT !.accessToken = td.access_token,
                                    !.tokenExpiresAt = t + td.expires_in],
            !.dirty = {"accessToken", "tokenExpiresAt"},
            !.pc = "saving"]

\* GET /test-connection: the stored token is used as it is
TestConnection(q) ==
  IF q.user.accessToken = Absent
    THEN [q EXCEPT !.err = "NotConnected", !.pc = "done"]
    ELSE [q EXCEPT !.accessToken = q.user.accessToken, !.pc = "api"]

\* GET /status: isConnected is tested before ensureValidAccessToken is called
StatusHandler(q, t) ==
  IF q.user.accessToken = Absent
    THEN [q EXCEPT !.pc = "done"]
    ELSE EnsureValidAccessToken(q, t)

\* services exchangeCode up to the POST: the authorization_code grant is sent
ExchangeCode(q) == [q EXCEPT !.exchangeCalls = @ + 1, !.pc = "exchanging"]

\* GET /callback: an error parameter ends the flow, then code is required
CallbackHandler(q) ==
  IF q.query.error
    THEN [q EXCEPT !.err = "oauth_failed", !.pc = "done"]
    ELSE IF ~q.query.code
           THEN [q EXCEPT !.err = "MissingParameters", !.pc = "done"]
           ELSE ExchangeCode(q)

\* GET /callback of the older router: req.query.error is not read
LegacyCallbackHandler(q) ==
  IF ~q.query.code
    THEN [q EXCEPT !.err = "MissingParameters", !.pc = "done"]
    ELSE ExchangeCode(q)

\* an error that carries the transport's message only
ExchangeErrorMessage_MessageOnly(resp) == resp.message

\* the message of the error exchangeCode throws:
\* error.response?.data?.error_description || error.message
ExchangeErrorMessage(resp) ==
  IF resp.error_description # "" THEN resp.error_description ELSE resp.message

\* a disconnect that clears the two tokens and leaves the rest
DisconnectHandler_TokensOnly(q) ==
  [q EXCEPT !.user = [q.user EXCEPT !.accessToken = Absent, !.refreshToken = Absent],
            !.dirty = {"accessToken", "refreshToken"},
            !.pc = "saving"]

\* DELETE /disconnect: user.amazonAuth = undefined, then user.save()
DisconnectHandler(q) == [q EXCEPT !.user = NoAuth, !.dirty = Fields, !.pc = "saving"]

\* the paths of amazonAuth in userSchema
SchemaPaths == Fields

\* Assigning an object to the nested path amazonAuth: the schema is strict, so
\* the keys that are not paths of the schema are left out of the document
Cast(obj) == [f \in SchemaPaths |-> obj[f]]

\* user.amazonAuth?.connectedAt as GET /status reads it; the empty set is undefined
ConnectedAt(doc) == IF "connectedAt" \in DOMAIN doc THEN doc.connectedAt ELSE {}

\* the object literal GET /callback assigns to user.amazonAuth
AmazonAuthLiteral(td, t) ==
  [accessToken |-> td.access_token,
   refreshToken |-> td.refresh_token,
   tokenExpiresAt |-> t + td.expires_in,
   sellerId |-> td.seller_id,
   connectedAt |-> {t}]

\* GET /callback after the token response: the whole amazonAuth is replaced
ApplyExchange(q, td, t) ==
  [q EXCEPT !.tokenData = td,
            !.receivedAt = t,
            !.user = Cast(AmazonAuthLiteral(td, t)),
            !.dirty = Fields,
            !.pc = "saving"]

\* user.save(): the modified paths are written to the stored document
SaveDoc(stored, q) ==
  [f \in Fields |-> IF f \in q.dirty THEN q.user[f] ELSE stored[f]]

\* the handler after await user.save()
AfterSave(q) ==
  LET s == [q EXCEPT !.saves = @ + 1, !.dirty = {}]
  IN  CASE q.kind \in EnsureKinds -> [s EXCEPT !.accessToken = q.user.accessToken, !.pc = "api"]
        [] q.kind = "debug" -> [s EXCEPT !.pc = "api"]
        [] OTHER -> [s EXCEPT !.pc = "done"]

\* the route's handler from the loaded document to its first await
Handler(k, q, t) ==
  CASE k = "orders" -> EnsureValidAccessToken(q, t)
    [] k = "status" -> StatusHandler(q, t)
    [] k = "debug" -> DebugEnsureFresh(q, t)
    [] k = "testconn" -> TestConnection(q)
    [] k = "callback" -> CallbackHandler(q)
    [] k = "callbackLegacy" -> LegacyCallbackHandler(q)
    [] OTHER -> DisconnectHandler(q)

\* A request arrives: User.findById, then the handler runs to its first await
Begin(r, k, query) ==
  /\ req[r].pc = "idle"
  /\ \A s \in Requests : s < r => req[s].pc # "idle"
  /\ k \notin CallbackKinds => query = NoQuery
  /\ LET q == [IdleReq EXCEPT !.kind = k, !.loaded = db, !.user = db, !.query = query,
                              !.overlap = {s \in Requests : InFlight(s)}]
     IN  req' = [req EXCEPT ![r] = Handler(k, q, now)]
  /\ UNCHANGED <<db, now, issued, ordVars, fx>>

\* The token endpoint answers a refresh_token grant
RefreshGranted(r, e, rotate) ==
  /\ req[r].pc = "refreshing"
  /\ LET td == [access_token |-> issued + 1,
                refresh_token |-> IF rotate THEN issued + 1 ELSE Absent,
                expires_in |-> e,
                seller_id |-> Absent]
     IN  req' = [req EXCEPT ![r] = IF req[r].kind = "debug"
                                     THEN DebugApplyRefresh(req[r], td, now)
                                     ELSE ApplyRefresh(req[r], td, now)]
  /\ issued' = issued + 1
  /\ UNCHANGED <<db, now, ordVars, fx>>

\* ... while the model's supply of tokens lasts
RefreshOk(r, e, rotate) ==
  /\ issued < MaxIssued
  /\ RefreshGranted(r, e, rotate)

\* a token endpoint that rotates the refresh token on every refresh
RotatingRefreshOk(r, e) ==
  /\ issued < MaxRotations
  /\ RefreshGranted(r, e, TRUE)

\* a handler that goes on with the stored token after the failure
RefreshFail_Continues(r, resp) ==
  /\ req[r].pc = "refreshing"
  /\ req' = [req EXCEPT ![r] = [@ EXCEPT !.err = "RefreshFailed", !.failure = resp,
                                         !.errMsg = RefreshErrorMessage(resp),
                                         !.accessToken = req[r].user.accessToken,
                                         !.pc = "api"]]
  /\ UNCHANGED <<db, now, issued, ordVars, fx>>

\* The token endpoint rejects the refresh, or the call fails
RefreshFail(r, resp) ==
  /\ req[r].pc = "refreshing"
  /\ req' = [req EXCEPT ![r] = [@ EXCEPT !.err = "RefreshFailed", !.failure = resp,
                                         !.errMsg = RefreshErrorMessage(resp),
                                         !.pc = "done"]]
  /\ UNCHANGED <<db, now, issued, ordVars, fx>>

\* The token endpoint answers an authorization_code grant
ExchangeOk(r, e, withRefresh) ==
  /\ req[r].pc = "exchanging"
  /\ issued < MaxIssued
  /\ LET td == [access_token |-> issued + 1,
                refresh_token |-> IF withRefresh THEN issued + 1 ELSE Absent,
                expires_in |-> e,
                seller_id |-> SellerId]
     IN  req' = [req EXCEPT ![r] = ApplyExchange(req[r], td, now)]
  /\ issued' = issued + 1
  /\ UNCHANGED <<db, now, ordVars, fx>>

\* The token endpoint rejects the authorization_code grant: exchangeCode throws
ExchangeFail(r, resp) ==
  /\ req[r].pc = "exchanging"
  /\ req' = [req EXCEPT ![r] = [@ EXCEPT !.err = "ExchangeFailed", !.failure = resp,
                                         !.errMsg = ExchangeErrorMessage(resp),
                                         !.pc = "done"]]
  /\ UNCHANGED <<db, now, issued, ordVars, fx>>

\* await user.save() completes
Save(r) ==
  /\ req[r].pc = "saving"
  /\ db' = SaveDoc(db, req[r])
  /\ req' = [req EXCEPT ![r] = AfterSave(req[r])]
  /\ UNCHANGED <<now, issued, ordVars, fx>>

\* The handler sends its token to the external API
CallApi(r) ==
  /\ req[r].pc = "api"
  /\ req' = [req EXCEPT ![r] = [@ EXCEPT !.presented = TRUE, !.pc = "done"]]
  /\ UNCHANGED <<db, now, issued, ordVars, fx>>

\* The response has been sent; the slot serves the next request
Respond(r) ==
  /\ req[r].pc = "done"
  /\ req' = [s \in Requests |->
               IF s = r THEN IdleReq ELSE [req[s] EXCEPT !.overlap = @ \ {r}]]
  /\ UNCHANGED <<db, now, issued, ordVars, fx>>

Tick ==
  /\ now < MaxTime
  /\ now' = now + 1
  /\ UNCHANGED <<db, req, issued, ordVars, fx>>

TokInit ==
  /\ db = NoAuth
  /\ req = [r \in Requests |-> IdleReq]
  /\ now = 0
  /\ issued = 0

Init ==
  /\ TokInit
  /\ env = NoEnv
  /\ ord = NoOrd
  /\ mock = NoMock
  /\ fx = NoFx

Next ==
  \/ \E r \in Requests, k \in Kinds, query \in Queries : Begin(r, k, query)
  \/ \E r \in Requests, e \in ExpiresInChoices, rotate \in BOOLEAN : RefreshOk(r, e, rotate)
  \/ \E r \in Requests, resp \in FailureResponses : RefreshFail(r, resp)
  \/ \E r \in Requests, e \in ExpiresInChoices, w \in BOOLEAN : ExchangeOk(r, e, w)
  \/ \E r \in Requests, resp \in FailureResponses : ExchangeFail(r, resp)
  \/ \E r \in Requests : Save(r)
  \/ \E r \in Requests : CallApi(r)
  \/ \E r \in Requests : Respond(r)
  \/ Tick

Spec == Init /\ [][Next]_vars

\* ------------------------------------------------ refreshes of a connected account

\* The account as a saved exchange at time 0 left it, MaxTime minutes later
InitRotation ==
  /\ \E e \in ExpiresInChoices :
       db = [accessToken |-> 1, refreshToken |-> 1, tokenExpiresAt |-> 0 + e,
             sellerId |-> SellerId]
  /\ req = [r \in Requests |-> IdleReq]
  /\ now = MaxTime
  /\ issued = 1
  /\ env = NoEnv
  /\ ord = NoOrd
  /\ mock = NoMock
  /\ fx = NoFx

NextRotation ==
  \/ \E r \in Requests, k \in {"orders", "status", "debug"} : Begin(r, k, NoQuery)
  \/ \E r \in Requests, e \in ExpiresInChoices : RotatingRefreshOk(r, e)
  \/ \E r \in Requests, resp \in FailureResponses : RefreshFail(r, resp)
  \/ \E r \in Requests : Save(r)
  \/ \E r \in Requests : CallApi(r)
  \/ \E r \in Requests : Respond(r)

SpecRotation == InitRotation /\ [][NextRotation]_vars

\* The same with the scheduling of the handlers: what a handler can do next
\* without an answer from outside, it does.  The token request carries no
\* timeout, so nothing obliges the wait for its answer to end.
SpecRotationFair ==
  /\ SpecRotation
  /\ \A r \in Requests : WF_vars(Save(r) \/ CallApi(r) \/ Respond(r))

\* ------------------------------------------------ responses of the routes

\* Error messages are sequences of text pieces, cut so that every text the
\* routes search for is a piece of its own.
ServiceMessage(e) ==
  CASE e = "AuthenticationFailed" ->
         <<"Authentication failed", ". Please reconnect your Amazon account.">>
    [] e = "RateLimited" -> <<"Rate limit", " exceeded. Please try again later.">>
    [] e = "AccessDenied" ->
         <<"Your Amazon SP API application doesn't have permission to access Orders.">>
    [] e = "AccessDeniedFixed" -> <<"Access denied", ". Your application may not have the required permissions.">>
    [] OTHER -> <<"Failed to get recent orders: ", "Network Error">>

\* error.message of what a handler catches
Message(q) ==
  CASE q.err = "NotConnected" -> <<"Amazon account ", "not connected">>
    [] q.err = "NoRefreshToken" ->
         <<"No refresh token available. Please reconnect your Amazon account.">>
    [] q.err = "RefreshFailed" -> <<"Failed to refresh access token: ", q.errMsg>>
    [] OTHER -> ServiceMessage(q.err)

\* error.message.includes(text)
Includes(msg, text) == \E i \in 1..Len(msg) : msg[i] = text

\* the catch block of GET /orders: the HTTP status it answers with
OrdersErrorStatus(msg) ==
  IF Includes(msg, "not connected") THEN 400
  ELSE IF Includes(msg, "Authentication failed") THEN 401
  ELSE IF Includes(msg, "Access denied") THEN 403
  ELSE IF Includes(msg, "Rate limit") THEN 429
  ELSE 500

\* The HTTP status a finished request is answered with.  GET /status catches
\* what ensureValidAccessToken and getOrderCount throw and answers 200 with
\* orderCount: null.
Response(q) ==
  IF q.err = "none" THEN 200
  ELSE CASE q.kind = "orders" -> OrdersErrorStatus(Message(q))
         [] q.kind = "status" -> 200
         [] q.kind = "callback" -> 302
         [] OTHER -> 500

\* ------------------------------------------------ order retrieval

\* floor(Math.random() * n): its least, a middle and its greatest value
FloorRandom(n) == {0, n \div 2, n - 1}

statuses == <<"Shipped", "Pending", "Delivered", "Cancelled">>

\* a generator reaching one day further back
MockDaysBack_OneMore == FloorRandom(WindowDays + 1)

\* Math.floor(Math.random() * 30)
MockDaysBack == FloorRandom(30)

\* Instants are hours counted from today's UTC midnight.
\* date.setDate(date.getDate() - d)
DaysAgo(t, d) == t - d * HoursPerDay

\* date.toISOString().split("T")[0]: the UTC calendar day of an instant
IsoDate(t) == t \div HoursPerDay

HourChoices == {0, HoursPerDay - 1}

\* the first step of each implementation
FirstPc(impl) ==
  CASE impl = "mock" -> "accessCheck"
    [] impl \in {"fixed", "rdt"} -> "rdt"
    [] impl = "basic" -> "page"
    [] OTHER -> "sellerInfo"

\* the locals of the try block are gone once it is left
LeaveTry(o) == [o EXCEPT !.allOrdersLen = 0, !.nextToken = FALSE, !.hasRdt = FALSE]

Fail(o, e) ==
  [LeaveTry(o) EXCEPT !.outcome = [kind |-> "error", synthetic |-> FALSE, labelled |-> FALSE,
                                     n |-> 0, err |-> e],
                      !.pc = "done"]

\* allOrders.map(...) and return
Format(o) ==
  [o EXCEPT !.outcome = [kind |-> "orders", synthetic |-> FALSE, labelled |-> FALSE,
                         n |-> o.allOrdersLen, err |-> "none"],
            !.pc = "done"]

\* a loop that goes on after a page without orders
BreaksOnEmpty_Never(impl) == FALSE

\* if (!payload?.Orders?.length) break
BreaksOnEmpty(impl) == impl # "basic"

\* the condition of the do-while loop
LoopCondition(o) ==
  o.nextToken /\ (o.impl \in CappedImpls => o.allOrdersLen < TotalCap)

\* one turn of the loop of getRecentOrders, from the page's arrival on
LoopTurn(o, n, cursor) ==
  LET seen == [o EXCEPT !.emptySeen = @ \/ (n = 0),
                        !.noCursorSeen = @ \/ ~cursor,
                        !.allFull = @ /\ n = MaxResultsPerPage /\ cursor]
  IN  IF BreaksOnEmpty(o.impl) /\ n = 0
        THEN Format(seen)
        ELSE LET a == [seen EXCEPT !.allOrdersLen = @ + n, !.nextToken = cursor]
             IN  IF LoopCondition(a) THEN a ELSE Format(a)

\* getOrderCount after its one request: orders.length, or payload.OrdersCount || 0
\* where the payload carries Orders and NextToken only
CountResult(o, n) ==
  [o EXCEPT !.outcome = [kind |-> "count", synthetic |-> FALSE, labelled |-> FALSE,
                         n |-> IF o.impl = "basic" THEN 0 ELSE n, err |-> "none"],
            !.pc = "done"]

\* the catch block of getRecentOrders / getOrderCount
Catch(o, status) ==
  CASE o.impl = "mock" ->
         ( CASE status = 403 -> [LeaveTry(o) EXCEPT !.pc = "probe"]
             [] status = 401 -> Fail(o, "AuthenticationFailed")
             [] status = 429 -> Fail(o, "RateLimited")
             [] OTHER -> Fail(o, "Failed") )
    [] o.impl = "fixed" ->
         ( CASE status = 403 -> Fail(o, "AccessDenied")
             [] status = 401 -> Fail(o, "AuthenticationFailed")
             [] status = 429 -> Fail(o, "RateLimited")
             [] OTHER -> Fail(o, "Failed") )
    [] OTHER -> Fail(o, "Failed")

\* headers["x-amz-access-token"] = restrictedToken || accessToken
AccessTokenHeader(o) == IF o.hasRdt THEN "rdt" ELSE "base"

\* checkOrdersApiAccess: the order endpoint answers the one-order request
AccessCheckOk ==
  /\ ord.pc = "accessCheck"
  /\ ord' = [ord EXCEPT !.orderCalls = @ + 1, !.pc = "rdt"]
  /\ UNCHANGED <<tokVars, fx, env, mock>>

\* checkOrdersApiAccess returns false on any failure: mock data is used
AccessCheckFail(status) ==
  /\ ord.pc = "accessCheck"
  /\ ord' = [ord EXCEPT !.orderCalls = @ + 1, !.got403 = (status = 403),
                        !.failed = @ \cup {status}, !.pc = "mock"]
  /\ mock' = NoMock
  /\ UNCHANGED <<tokVars, fx, env>>

\* getRestrictedDataToken answers
RdtAnswer(ok) ==
  /\ ord.pc = "rdt"
  /\ ord' = IF ~ok /\ ord.impl = "rdt"
              THEN Fail([ord EXCEPT !.rdtFailed = TRUE], "Failed")
              ELSE [ord EXCEPT !.hasRdt = ok, !.rdtFailed = ~ok, !.pc = "page"]
  /\ UNCHANGED <<tokVars, fx, env, mock>>

\* a request to the order endpoint is answered with orders
PageOk(n, cursor) ==
  /\ ord.pc = "page"
  /\ ord.impl \notin CappedImpls => ord.pageRequests < MaxPages
  /\ LET o == [ord EXCEPT !.pageRequests = @ + 1, !.orderCalls = @ + 1,
                          !.tokenSent = AccessTokenHeader(ord)]
     IN  ord' = IF ord.fn = "getOrderCount" THEN CountResult(o, n) ELSE LoopTurn(o, n, cursor)
  /\ UNCHANGED <<tokVars, fx, env, mock>>

\* a request to the order endpoint fails
PageError(status) ==
  /\ ord.pc = "page"
  /\ LET o == [ord EXCEPT !.pageRequests = @ + 1, !.orderCalls = @ + 1,
                          !.tokenSent = AccessTokenHeader(ord),
                          !.got403 = @ \/ (status = 403), !.failed = @ \cup {status},
                          !.allFull = FALSE]
     IN  ord' = Catch(o, status)
  /\ mock' = NoMock
  /\ UNCHANGED <<tokVars, fx, env>>

\* getSellerProfile: its own failure becomes hasAccess: false
Probe ==
  /\ ord.pc = "probe"
  /\ ord' = IF env.probeOk
              THEN [ord EXCEPT !.probeCalls = @ + 1, !.pc = "mock"]
              ELSE Fail([ord EXCEPT !.probeCalls = @ + 1], "AccessDenied")
  /\ UNCHANGED <<tokVars, fx, env, mock>>

\* getSellerInfo of getOrdersAlternative: three endpoints are tried in turn
SellerInfoTry(ok) ==
  /\ ord.pc = "sellerInfo"
  /\ IF ok
       THEN /\ ord' = [ord EXCEPT !.probeCalls = @ + 1, !.pc = "mock"]
            /\ \E b \in FloorRandom(25) : mock' = [NoMock EXCEPT !.bound = b + 5]
       ELSE /\ ord' = IF ord.probeCalls + 1 = 3
                        THEN Fail([ord EXCEPT !.probeCalls = @ + 1], "NoAccess")
                        ELSE [ord EXCEPT !.probeCalls = @ + 1]
            /\ UNCHANGED mock
  /\ UNCHANGED <<tokVars, fx, env>>

\* the bound of the generator's loop: drawn once by getOrdersAlternative,
\* drawn anew at every test of i < ... by generateMockOrderData
MockBound(b) == IF ord.impl = "alt" THEN mock.bound ELSE b + 5

\* one order is generated and pushed
MockPush(b, d, s) ==
  /\ ord.pc = "mock"
  /\ mock.i < MockBound(b)
  /\ mock' = [mock EXCEPT !.i = @ + 1,
                          !.statuses = @ \cup {statuses[s + 1]},
                          !.dates = @ \cup {IsoDate(DaysAgo(env.hourOfDay, d))}]
  /\ UNCHANGED <<tokVars, fx, env, ord>>

\* getOrdersAlternative returns { orders, isRealData: false, message };
\* generateMockOrderData's array is returned as it is
IsLabelled(impl) == impl = "alt"

\* the loop ends; the orders are sorted by date, newest first, and returned
\* (mock keeps the orders' statuses and dates as sets, which sorting leaves alone)
MockReturn(b) ==
  /\ ord.pc = "mock"
  /\ ~(mock.i < MockBound(b))
  /\ ord' = [ord EXCEPT !.outcome = [kind |-> IF ord.fn = "getOrderCount" THEN "count" ELSE "orders",
                                     synthetic |-> TRUE, labelled |-> IsLabelled(ord.impl),
                                     n |-> mock.i, err |-> "none"],
                        !.pc = "done"]
  /\ UNCHANGED <<tokVars, fx, env, mock>>

OrdInit ==
  /\ env \in [probeOk : BOOLEAN, hourOfDay : HourChoices, total : {0}]
  /\ \E impl \in Impls :
       \E fn \in (IF impl = "alt" THEN {"getOrdersAlternative"}
                                  ELSE {"getRecentOrders", "getOrderCount"}) :
         ord = [NoOrd EXCEPT !.impl = impl, !.fn = fn, !.pc = FirstPc(impl)]
  /\ mock = NoMock
  /\ fx = NoFx

InitOrders == TokInit /\ OrdInit

NextOrders ==
  \/ AccessCheckOk
  \/ \E status \in ErrorStatuses : AccessCheckFail(status)
  \/ \E ok \in BOOLEAN : RdtAnswer(ok)
  \/ \E n \in (IF ord.fn = "getOrderCount" THEN CountPageSizes ELSE PageSizes),
        cursor \in BOOLEAN : PageOk(n, cursor)
  \/ \E status \in ErrorStatuses : PageError(status)
  \/ Probe
  \/ \E ok \in BOOLEAN : SellerInfoTry(ok)
  \/ \E b \in FloorRandom(20), d \in MockDaysBack, s \in FloorRandom(4) \cup {1} : MockPush(b, d, s)
  \/ \E b \in FloorRandom(20) : MockReturn(b)

SpecOrders == InitOrders /\ [][NextOrders]_vars

\* ------------------------------------------------ GET /orders, both retrievals

Min(a, b) == IF a < b THEN a ELSE b

Totals == 0..MaxTotal

\* An upstream holding env.total orders answers a request: the next
\* MaxResultsPerPage orders, and NextToken when more are left
UpstreamPage ==
  LET size == IF ord.fn = "getOrderCount" THEN CountPageSize ELSE MaxResultsPerPage
      left == env.total - ord.allOrdersLen
  IN  PageOk(Min(left, size), left > size)

\* Promise.all([getOrderCount(...), getRecentOrders(...)]): the two retrievals
\* share nothing but the upstream they read, so one is run after the other
RouteJoin ==
  /\ ord.fn = "getRecentOrders"
  /\ ord.pc = "done"
  /\ ord.outcome.kind = "orders"
  /\ ord.routeOrders = NoResult
  /\ ord' = [NoOrd EXCEPT !.impl = ord.impl, !.fn = "getOrderCount",
                          !.pc = FirstPc(ord.impl), !.routeOrders = ord.outcome.n]
  /\ UNCHANGED <<tokVars, fx, env, mock>>

InitRoute ==
  /\ TokInit
  /\ env \in [probeOk : {TRUE}, hourOfDay : {0}, total : Totals]
  /\ \E impl \in CappedImpls :
       ord = [NoOrd EXCEPT !.impl = impl, !.fn = "getRecentOrders", !.pc = FirstPc(impl)]
  /\ mock = NoMock
  /\ fx = NoFx

NextRoute ==
  \/ AccessCheckOk
  \/ \E ok \in BOOLEAN : RdtAnswer(ok)
  \/ UpstreamPage
  \/ RouteJoin

SpecRoute == InitRoute /\ [][NextRoute]_vars

\* ------------------------------------------------ functions of the services

\* JavaScript's undefined, as a value and as it appears in a template literal
Undefined == "undefined"

\* a value that is neither undefined nor the empty string
Truthy(v) == v \notin {Undefined, ""}

\* OrderTotal of an upstream order; present is FALSE when the field is missing
OrderTotals ==
  [present : {TRUE}, CurrencyCode : {"INR", Undefined}, Amount : {"450.00", "0", Undefined}]
    \cup {[present |-> FALSE, CurrencyCode |-> Undefined, Amount |-> Undefined]}

\* OrderStatus strings of the upstream, and a missing one
UpstreamStatuses == {"Shipped", "Pending", "Unshipped", "Canceled", Undefined}

\* PurchaseDate, cut at its "T"; the empty sequence is a missing date
PurchaseDates == {<<"2024-01-15", "T", "10:30:00Z">>, <<>>}

UpstreamOrders ==
  [AmazonOrderId : {"402-1"}, PurchaseDate : PurchaseDates,
   OrderStatus : UpstreamStatuses, OrderTotal : OrderTotals]

\* `${order.OrderTotal.CurrencyCode} ${order.OrderTotal.Amount}`
AmountTemplate(total) == <<total.CurrencyCode, " ", total.Amount>>

\* the amount of a formatted order
FormatAmount(impl, total) ==
  IF impl = "basic"
    THEN IF total.present /\ Truthy(total.Amount) /\ Truthy(total.CurrencyCode)
           THEN AmountTemplate(total) ELSE <<"N/A">>
    ELSE IF total.present THEN AmountTemplate(total) ELSE <<"N/A">>

\* order.OrderStatus || "Unknown" ; order.OrderStatus
FormatStatus(impl, status) ==
  IF impl = "basic" THEN status
  ELSE IF Truthy(status) THEN status ELSE "Unknown"

\* order.PurchaseDate ? order.PurchaseDate.split("T")[0] : "N/A" ;
\* order.PurchaseDate?.split("T")[0]
FormatDate(impl, date) ==
  IF date # <<>> THEN date[1]
  ELSE IF impl = "basic" THEN Undefined ELSE "N/A"

\* the callback of allOrders.map(...)
FormatOrder(impl, order) ==
  [orderId |-> order.AmazonOrderId,
   orderDate |-> FormatDate(impl, order.PurchaseDate),
   status |-> FormatStatus(impl, order.OrderStatus),
   amount |-> FormatAmount(impl, order.OrderTotal)]

\* the modules that format orders: "mock" and "fixed" read alike
FormatImpls == {"mock", "basic"}

InitFormat ==
  \E impl \in FormatImpls, order \in UpstreamOrders :
    fx = [fn |-> "formatOrder", impl |-> impl, pc |-> "call", arg |-> order]

ApplyFormat ==
  /\ fx.fn = "formatOrder" /\ fx.pc = "call"
  /\ fx' = [fn |-> fx.fn, impl |-> fx.impl, pc |-> "done", arg |-> fx.arg,
            out |-> FormatOrder(fx.impl, fx.arg)]
  /\ UNCHANGED <<tokVars, ordVars>>

\* config.region as the modules read it, process.env.AMAZON_REGION || "eu"
ConfigRegions == {"na", "eu", "fe", "NA", "us"}

\* config.region.toLowerCase(), on ConfigRegions
ToLowerCase(region) == IF region = "NA" THEN "na" ELSE region

\* regionMap: the URLs as the pieces they are made of
RegionMap ==
  [region \in {"na", "eu", "fe"} |->
     [production |-> <<"https://sellingpartnerapi-", region, ".amazon.com">>,
      sandbox |-> <<"https://sandbox.sellingpartnerapi-", region, ".amazon.com">>]]

\* the modules whose getBaseUrl tests regionMap[region] before reading it
ImplsTestingRegion == {"mock", "fixed"}

\* getBaseUrl; without the test, regionMap[region][environment] of an unknown
\* region is a property read on undefined, a TypeError
GetBaseUrl(impl, cfg) ==
  LET region == ToLowerCase(cfg.region)
      environment == IF cfg.sandbox THEN "sandbox" ELSE "production"
  IN  IF region \in DOMAIN RegionMap
        THEN [kind |-> "value", value |-> RegionMap[region][environment], error |-> "none"]
        ELSE IF impl \in ImplsTestingRegion
               THEN [kind |-> "error", value |-> <<>>, error |-> "Invalid region"]
               ELSE [kind |-> "error", value |-> <<>>, error |-> "TypeError"]

InitBaseUrl ==
  \E impl \in {"mock", "fixed", "basic"}, region \in ConfigRegions, sandbox \in BOOLEAN :
    fx = [fn |-> "getBaseUrl", impl |-> impl, pc |-> "call",
          arg |-> [region |-> region, sandbox |-> sandbox]]

ApplyBaseUrl ==
  /\ fx.fn = "getBaseUrl" /\ fx.pc = "call"
  /\ fx' = [fn |-> fx.fn, impl |-> fx.impl, pc |-> "done", arg |-> fx.arg,
            out |-> GetBaseUrl(fx.impl, fx.arg)]
  /\ UNCHANGED <<tokVars, ordVars>>

\* validateConfig: the keys it requires
RequiredConfig == {"clientId", "clientSecret", "redirectUri", "applicationId"}

ConfigMessage == "Missing required Amazon SP API configuration"

\* the operations that talk to the authorization server
OAuthOperations == {"getAuthUrl", "exchangeCode", "refreshAccessToken"}

\* what the catch block of an operation puts before the message it caught
FailurePrefix(fn) ==
  IF fn = "exchangeCode" THEN "Failed to exchange authorization code: "
                         ELSE "Failed to refresh access token: "

\* An operation called with the keys in missing unset, up to its return, its
\* throw or its request.  "mock" calls validateConfig(), inside the try block
\* in exchangeCode and refreshAccessToken; "basic" does not call it.
OAuthOperation(impl, fn, missing) ==
  IF impl = "mock" /\ missing # {}
    THEN IF fn = "getAuthUrl"
           THEN [kind |-> "error", msg |-> <<ConfigMessage>>, requestSent |-> FALSE]
           ELSE [kind |-> "error", msg |-> <<FailurePrefix(fn), ConfigMessage>>,
                 requestSent |-> FALSE]
    ELSE IF fn = "getAuthUrl"
           THEN [kind |-> "value", msg |-> <<>>, requestSent |-> FALSE]
           ELSE [kind |-> "request", msg |-> <<>>, requestSent |-> TRUE]

InitOAuth ==
  \E impl \in {"mock", "basic"}, fn \in OAuthOperations, missing \in SUBSET RequiredConfig :
    fx = [fn |-> fn, impl |-> impl, pc |-> "call", arg |-> missing]

ApplyOAuth ==
  /\ fx.fn \in OAuthOperations /\ fx.pc = "call"
  /\ fx' = [fn |-> fx.fn, impl |-> fx.impl, pc |-> "done", arg |-> fx.arg,
            out |-> OAuthOperation(fx.impl, fx.fn, fx.arg)]
  /\ UNCHANGED <<tokVars, ordVars>>

\* The pagination loop of getRecentOrders with the orders and cursors themselves:
\* AmazonOrderId values and NextToken values the upstream may answer with
OrderIds == {1, 2}
PageTokens == {1, 2}

\* the arrays of at most n elements of S
SeqsUpTo(S, n) == UNION {[1..k -> S] : k \in 0..n}

\* payload.Orders of one answer
PagesOfOrders == SeqsUpTo([AmazonOrderId : OrderIds], MaxPageLen)

\* getRecentOrders after getRestrictedDataToken has answered, at the head of the loop
InitListing ==
  \E rdt \in BOOLEAN :
    fx = [fn |-> "getRecentOrders", impl |-> "mock", pc |-> "send",
          hasRdt |-> rdt,          \* restrictedToken is not null
          nextToken |-> Absent,    \* let nextToken = null
          allOrders |-> <<>>,
          requests |-> <<>>,       \* params.NextToken and x-amz-access-token of each request
          answers |-> <<>>,        \* the payloads received
          cancelled |-> FALSE,     \* the caller has given the retrieval up
          kind |-> "none",
          out |-> <<>>]

\* a request that never carries a cursor
NextTokenParam_None(o) == Absent

\* if (nextToken) params.NextToken = nextToken
NextTokenParam(o) == o.nextToken

\* the head of the loop body: headers and params are built, axios.get is awaited
SendPage ==
  /\ fx.fn = "getRecentOrders" /\ fx.pc = "send"
  /\ fx' = [fx EXCEPT !.requests = Append(@, [NextToken |-> NextTokenParam(fx),
                                               header |-> AccessTokenHeader(fx)]),
                       !.pc = "await"]
  /\ UNCHANGED <<tokVars, ordVars>>

\* The caller of GET /orders gives up (the client closes the connection).
\* getRecentOrders(accessToken, sellerId) takes no signal and reads no flag:
\* nothing of the retrieval changes.
CallerCancels ==
  /\ fx.fn = "getRecentOrders" /\ fx.pc # "done"
  /\ ~fx.cancelled
  /\ fx' = [fx EXCEPT !.cancelled = TRUE]
  /\ UNCHANGED <<tokVars, ordVars>>

\* allOrders.map((order) => ({ orderId: order.AmazonOrderId, ... })) and return
ListingFormat(o) ==
  [o EXCEPT !.out = [i \in 1..Len(o.allOrders) |-> [orderId |-> o.allOrders[i].AmazonOrderId]],
            !.kind = "orders",
            !.pc = "done"]

\* the rest of the loop body, from the answer on, and the loop's condition
ListingTurn(o, payload) ==
  LET got == [o EXCEPT !.answers = Append(@, payload)]
  IN  IF Len(payload.Orders) = 0
        THEN ListingFormat(got)
        ELSE LET a == [got EXCEPT !.allOrders = @ \o payload.Orders,
                                  !.nextToken = payload.NextToken]
             IN  IF a.nextToken # Absent /\ Len(a.allOrders) < TotalCap
                   THEN [a EXCEPT !.pc = "send"]
                   ELSE ListingFormat(a)

\* the order endpoint answers; an upstream of MaxListPages pages ends there
ReceivePage(orders, token) ==
  /\ fx.fn = "getRecentOrders" /\ fx.pc = "await"
  /\ Len(fx.answers) + 1 >= MaxListPages => token = Absent
  /\ fx' = ListingTurn(fx, [Orders |-> orders, NextToken |-> token])
  /\ UNCHANGED <<tokVars, ordVars>>

\* the request fails: the try block is left with what it had accumulated; after
\* a 403 with the seller profile readable generateMockOrderData() is returned,
\* otherwise an error is thrown
ReceiveError(status, hasAccess) ==
  /\ fx.fn = "getRecentOrders" /\ fx.pc = "await"
  /\ fx' = [fx EXCEPT !.allOrders = <<>>, !.nextToken = Absent,
                       !.kind = IF status = 403 /\ hasAccess THEN "synthetic" ELSE "error",
                       !.pc = "done"]
  /\ UNCHANGED <<tokVars, ordVars>>

\* the orderDate values generateMockOrderData can push, as day numbers
MockDates == {IsoDate(DaysAgo(0, d)) : d \in MockDaysBack}

\* the arrays generateMockOrderData can have pushed: at least 5 orders
MockOrderArrays ==
  UNION {[1..n -> MockDates] : n \in 5..MaxSortLen}

\* a comparator that puts the oldest first
Compare_Ascending(a, b) == a.orderDate - b.orderDate

\* (a, b) => new Date(b.orderDate) - new Date(a.orderDate)
Compare(a, b) == b.orderDate - a.orderDate

\* x is put behind every element the comparator does not place after it
RECURSIVE Insert(_, _)
Insert(sorted, x) ==
  IF sorted = <<>> THEN <<x>>
  ELSE IF Compare(Head(sorted), x) <= 0
         THEN <<Head(sorted)>> \o Insert(Tail(sorted), x)
         ELSE <<x>> \o sorted

\* Array.prototype.sort with the comparator: a stable sort
RECURSIVE Sort(_)
Sort(array) ==
  IF array = <<>> THEN <<>>
  ELSE Insert(Sort(SubSeq(array, 1, Len(array) - 1)), array[Len(array)])

\* generateMockOrderData at its return, the pushed array in hand
InitMockData ==
  \E dates \in MockOrderArrays :
    fx = [fn |-> "generateMockOrderData", impl |-> "mock", pc |-> "call",
          arg |-> [i \in 1..Len(dates) |-> [orderId |-> i, orderDate |-> dates[i]]]]

\* return mockOrders.sort(...)
ApplyMockData ==
  /\ fx.fn = "generateMockOrderData" /\ fx.pc = "call"
  /\ fx' = [fn |-> fx.fn, impl |-> fx.impl, pc |-> "done", arg |-> fx.arg,
            out |-> Sort(fx.arg)]
  /\ UNCHANGED <<tokVars, ordVars>>

\* The state parameter of the authorization flow.  A JSON text is what its
\* syntax is and, for an object, its members in order; base64 wraps a text.
UserIds == {"u1", "u2"}

\* Date.now() of GET /auth-url, as JSON prints it
Timestamps == {"1700000000000"}

\* JSON.stringify of an object: members whose value is undefined are left out
JsonStringify(members) ==
  [syntax |-> "object", members |-> SelectSeq(members, LAMBDA m : m[2] # Undefined)]

\* Buffer.from(text).toString("base64")
ToBase64(text) == [base64 |-> text]

\* Buffer.from(state, "base64").toString()
FromBase64(state) == state.base64

\* value[key] of a parsed object, undefined when there is no such member
Member(value, key) ==
  IF \E i \in 1..Len(value.members) : value.members[i][1] = key
    THEN value.members[CHOOSE i \in 1..Len(value.members) : value.members[i][1] = key][2]
    ELSE Undefined

\* GET /auth-url: the state of the router, with its timestamp, and of the older router
AuthUrlState(impl, userId, timestamp) ==
  IF impl = "legacy"
    THEN ToBase64(JsonStringify(<<(<<"userId", userId>>)>>))
    ELSE ToBase64(JsonStringify(<<(<<"userId", userId>>), (<<"timestamp", timestamp>>)>>))

\* state values a caller of GET /callback can send besides one it was given:
\* no JSON at all, the JSON null, an object without userId
CraftedStates ==
  {ToBase64([syntax |-> "invalid", members |-> <<>>]),
   ToBase64([syntax |-> "null", members |-> <<>>]),
   ToBase64(JsonStringify(<<(<<"timestamp", "1700000000000">>)>>))}

\* GET /callback from the decoding of state to the call of exchangeCode: the
\* status it answers with, the user it resolved, whether exchangeCode is called.
\* JSON.parse throws on a text that is no JSON; reading userId of null throws;
\* the older router has no inner try and no test of userId, User.findById of
\* undefined finds nobody.
CallbackState(impl, state) ==
  LET text == FromBase64(state)
      rejected(status) == [status |-> status, userId |-> Undefined, exchange |-> FALSE]
  IN  IF text.syntax = "invalid"
        THEN rejected(IF impl = "legacy" THEN 500 ELSE 400)
      ELSE IF text.syntax = "null"
        THEN rejected(IF impl = "legacy" THEN 500 ELSE 302)
      ELSE IF ~Truthy(Member(text, "userId"))
        THEN rejected(IF impl = "legacy" THEN 404 ELSE 400)
      ELSE [status |-> 200, userId |-> Member(text, "userId"), exchange |-> TRUE]

InitAuthState ==
  \E impl \in {"router", "legacy"}, userId \in UserIds, timestamp \in Timestamps :
    fx = [fn |-> "authState", impl |-> impl, pc |-> "call",
          arg |-> [userId |-> userId, timestamp |-> timestamp]]

\* GET /auth-url answers with the URL that carries the state
ApplyAuthUrl ==
  /\ fx.fn = "authState" /\ fx.pc = "call"
  /\ fx' = [fn |-> fx.fn, impl |-> fx.impl, pc |-> "redirected", arg |-> fx.arg,
            state |-> AuthUrlState(fx.impl, fx.arg.userId, fx.arg.timestamp)]
  /\ UNCHANGED <<tokVars, ordVars>>

\* GET /callback arrives with a state: the one handed out, or a crafted one
ApplyCallbackState(own, crafted) ==
  /\ fx.fn = "authState" /\ fx.pc = "redirected"
  /\ LET state == IF own THEN fx.state ELSE crafted
     IN  fx' = [fn |-> fx.fn, impl |-> fx.impl, pc |-> "done", arg |-> fx.arg,
               state |-> fx.state, query |-> state,
               out |-> CallbackState(fx.impl, state)]
  /\ UNCHANGED <<tokVars, ordVars>>

InitFunctions ==
  /\ TokInit
  /\ env = NoEnv
  /\ ord = NoOrd
  /\ mock = NoMock
  /\ (InitFormat \/ InitBaseUrl \/ InitOAuth \/ InitListing \/ InitMockData \/ InitAuthState)

NextFunctions ==
  \/ ApplyFormat
  \/ ApplyBaseUrl
  \/ ApplyOAuth
  \/ SendPage
  \/ CallerCancels
  \/ \E orders \in PagesOfOrders, token \in PageTokens \cup {Absent} : ReceivePage(orders, token)
  \/ \E status \in ErrorStatuses, hasAccess \in BOOLEAN : ReceiveError(status, hasAccess)
  \/ ApplyMockData
  \/ ApplyAuthUrl
  \/ \E own \in BOOLEAN, crafted \in CraftedStates : ApplyCallbackState(own, crafted)

SpecFunctions == InitFunctions /\ [][NextFunctions]_vars

\* ------------------------------------------------ several accounts
\* Here db is the users collection, db[u] the amazonAuth of user u, and a
\* request carries the user it was made by and the user its handler resolved.

\* the routes served in this part
AccountKinds == {"orders", "callback", "disconnect"}

\* a callback that takes the first user of the collection
ResolveUser_First(k, caller, timestamp) == CHOOSE u \in UserIds : TRUE

\* The userId the handler works on: req.user.userId of the authenticated
\* routes; in GET /callback the userId of the decoded state, the state being
\* the one GET /auth-url made for the caller
ResolveUser(k, caller, timestamp) ==
  IF k \in CallbackKinds
    THEN CallbackState("router", AuthUrlState("router", caller, timestamp)).userId
    ELSE caller

\* A request of caller arrives: User.findById(userId), then the handler runs
\* to its first await
AccountBegin(r, k, caller) ==
  /\ req[r].pc = "idle"
  /\ \A s \in Requests : s < r => req[s].pc # "idle"
  /\ \E timestamp \in Timestamps :
       LET userId == ResolveUser(k, caller, timestamp)
           q == [caller |-> caller, userId |-> userId] @@
                [IdleReq EXCEPT !.kind = k, !.loaded = db[userId], !.user = db[userId],
                                !.query = [error |-> FALSE, code |-> k \in CallbackKinds],
                                !.overlap = {s \in Requests : InFlight(s)}]
       IN  req' = [req EXCEPT ![r] = Handler(k, q, now)]
  /\ UNCHANGED <<db, now, issued, ordVars, fx>>

\* await user.save() completes: the document of the user the handler loaded
AccountSave(r) ==
  /\ req[r].pc = "saving"
  /\ db' = [db EXCEPT ![req[r].userId] = SaveDoc(@, req[r])]
  /\ req' = [req EXCEPT ![r] = AfterSave(req[r])]
  /\ UNCHANGED <<now, issued, ordVars, fx>>

\* nobody is linked
InitAccounts ==
  /\ db = [u \in UserIds |-> NoAuth]
  /\ req = [r \in Requests |-> IdleReq]
  /\ now = 0
  /\ issued = 0
  /\ env = NoEnv
  /\ ord = NoOrd
  /\ mock = NoMock
  /\ fx = NoFx

NextAccounts ==
  \/ \E r \in Requests, k \in AccountKinds, caller \in UserIds : AccountBegin(r, k, caller)
  \/ \E r \in Requests, e \in ExpiresInChoices : RotatingRefreshOk(r, e)
  \/ \E r \in Requests, resp \in FailureResponses : RefreshFail(r, resp)
  \/ \E r \in Requests, e \in ExpiresInChoices : ExchangeOk(r, e, TRUE)
  \/ \E r \in Requests, resp \in FailureResponses : ExchangeFail(r, resp)
  \/ \E r \in Requests : AccountSave(r)
  \/ \E r \in Requests : CallApi(r)
  \/ \E r \in Requests : Respond(r)
  \/ Tick

SpecAccounts == InitAccounts /\ [][NextAccounts]_vars

\* ------------------------------------------------ claims, token lifecycle

Concurrent(r1, r2) == r1 \in req[r2].overlap \/ r2 \in req[r1].overlap

RefreshingKinds == {"orders", "status", "debug"}

\* the freshness check of request r found more than BufferTime left
FoundFresh(r) ==
  /\ req[r].kind \in EnsureKinds
  /\ req[r].checked
  /\ req[r].loaded.tokenExpiresAt > req[r].checkNow + BufferTime

\* C1: when tokenExpiresAt is more than 5 minutes after the time of the check,
\* ensureValidAccessToken sends no refresh grant, returns the stored access
\* token and leaves the credential (in memory and persisted) as it was.
C1_FreshTokenUntouched ==
  \A r \in Requests :
    FoundFresh(r) =>
      /\ req[r].refreshCalls = 0
      /\ req[r].err = "none"
      /\ req[r].pc \in {"api", "done"}
      /\ req[r].accessToken = req[r].loaded.accessToken
      /\ req[r].user = req[r].loaded
      /\ req[r].saves = 0
      /\ req[r].dirty = {}

C1_Witness ==
  \E r \in Requests :
    FoundFresh(r) /\ req[r].presented /\ req[r].accessToken # Absent /\ req[r].checkNow > 0

\* C2 (as claimed): when two concurrent /status, /orders or /debug requests of
\* the account both find the token at or within 5 minutes of expiry (and a
\* refresh token is stored), exactly one refresh grant is sent by them.
C2_SingleFlight ==
  \A r1, r2 \in Requests :
    ( /\ r1 # r2
      /\ Concurrent(r1, r2)
      /\ req[r1].kind \in RefreshingKinds /\ req[r2].kind \in RefreshingKinds
      /\ req[r1].sawStale /\ req[r2].sawStale
      /\ req[r1].loaded.refreshToken # Absent /\ req[r2].loaded.refreshToken # Absent )
    => req[r1].refreshCalls + req[r2].refreshCalls = 1

\* C3 (as claimed): a token that was at or within 5 minutes of its expiry when
\* the freshness check was made is never the token sent to the external API.
C3_NeverPresentsExpiring ==
  \A r \in Requests :
    (req[r].checked /\ req[r].presented) =>
      ~( /\ req[r].checkNow >= req[r].loaded.tokenExpiresAt - BufferTime
         /\ req[r].accessToken = req[r].loaded.accessToken )

\* C4 (as claimed): every save that follows a successful refresh leaves the
\* persisted refresh token equal to the response's refresh_token when there is
\* one, and equal to the refresh token persisted before the save otherwise.
C4_RotationStored ==
  [][\A r \in Requests :
       ( /\ req[r].pc = "saving"
         /\ req[r].refreshCalls > 0
         /\ req'[r].saves = req[r].saves + 1 )
       => db'.refreshToken = (IF req[r].tokenData.refresh_token # Absent
                                THEN req[r].tokenData.refresh_token
                                ELSE db.refreshToken)]_vars

\* the check of request r found the token expired or inside the buffer, and
\* the credential holds no refresh token
StaleWithoutRefreshToken(r) ==
  /\ req[r].kind \in EnsureKinds
  /\ req[r].checked
  /\ req[r].checkNow > req[r].loaded.tokenExpiresAt - BufferTime
  /\ req[r].loaded.refreshToken = Absent

\* C5: with the token expired or inside the buffer and no refresh token,
\* ensureValidAccessToken raises the reconnect error, sends nothing to the
\* token endpoint and changes nothing in the credential.
C5_NoRefreshTokenRaises ==
  \A r \in Requests :
    StaleWithoutRefreshToken(r) =>
      /\ req[r].err = "NoRefreshToken"
      /\ req[r].pc = "done"
      /\ req[r].refreshCalls = 0
      /\ req[r].user = req[r].loaded
      /\ req[r].saves = 0
      /\ req[r].dirty = {}
      /\ ~req[r].presented

C5_Witness ==
  \E r \in Requests :
    StaleWithoutRefreshToken(r) /\ req[r].loaded.accessToken # Absent /\ req[r].err = "NoRefreshToken"

\* ------------------------------------------------ claims, order retrieval

RealOrders == ord.outcome.kind = "orders" /\ ~ord.outcome.synthetic

\* C6 (as claimed): getRecentOrders ends whatever the upstream does; when every
\* page is full (50 orders) and carries a cursor, exactly 4 page requests are
\* sent and 200 orders are returned.
C6_FourPagesThenStop ==
  (ord.fn = "getRecentOrders" /\ ord.allFull) =>
    /\ ord.pageRequests <= TotalCap \div MaxResultsPerPage
    /\ (ord.pc = "done" /\ RealOrders) =>
         /\ ord.pageRequests = TotalCap \div MaxResultsPerPage
         /\ ord.outcome.n = TotalCap

\* C7 (as claimed): in the capped implementations the accumulator, and the
\* list returned, never hold more than 200 orders.
C7_HardCeiling ==
  (ord.fn = "getRecentOrders" /\ ord.impl \in CappedImpls) =>
    /\ ord.allOrdersLen <= TotalCap
    /\ RealOrders => ord.outcome.n <= TotalCap

\* the implementations whose loop tests for a page without orders
ImplsTestingEmptyPage == {"mock", "fixed", "rdt"}

EndedWithAccumulated ==
  /\ ord.pc = "done"
  /\ RealOrders
  /\ ord.outcome.err = "none"
  /\ ord.outcome.n = ord.allOrdersLen

FixedStatusSet == {"Shipped", "Pending", "Delivered", "Cancelled"}

\* calendar day d lies in the 30 days that end now
WithinWindow(d) ==
  /\ d * HoursPerDay > env.hourOfDay - WindowDays * HoursPerDay
  /\ d <= IsoDate(env.hourOfDay)

\* C9: after a 403 of the order endpoint, the participation probe succeeding,
\* getRecentOrders returns synthetic orders; and every synthetic set is
\* non-empty, has its statuses among Shipped, Pending, Delivered, Cancelled
\* and its order dates within the last 30 days.
C9_FallbackActivation ==
  /\ ( /\ ord.impl = "mock" /\ ord.fn = "getRecentOrders"
       /\ ord.pc = "done" /\ ord.got403 /\ env.probeOk )
     => (ord.outcome.kind = "orders" /\ ord.outcome.synthetic)
  /\ (ord.pc = "done" /\ ord.outcome.synthetic) =>
       /\ ord.outcome.n >= 1
       /\ ord.outcome.n = mock.i
       /\ mock.statuses # {} /\ mock.statuses \subseteq FixedStatusSet
       /\ mock.dates # {} /\ \A d \in mock.dates : WithinWindow(d)

C9_Witness ==
  /\ ord.impl = "mock" /\ ord.fn = "getRecentOrders"
  /\ ord.pc = "done" /\ ord.got403 /\ env.probeOk
  /\ ord.probeCalls = 1
  /\ ord.outcome.synthetic
  /\ Cardinality(mock.dates) > 1

\* C10 (as claimed): after a 403 of the order endpoint, the participation
\* probe failing, getRecentOrders and getOrderCount raise the access-denied
\* error and return nothing synthetic.
C10_FallbackSuppression ==
  ( /\ ord.impl = "mock" /\ ord.fn \in {"getRecentOrders", "getOrderCount"}
    /\ ord.pc = "done" /\ ord.got403 /\ ~env.probeOk )
  => ( /\ ord.outcome.kind = "error"
       /\ ord.outcome.err = "AccessDenied"
       /\ ~ord.outcome.synthetic )

Retrievals == {"getRecentOrders", "getOrderCount"}

\* C11 (as claimed): a retrieval whose order-endpoint request was answered 401
\* ends with the authentication error, never with orders or a count.
C11_AuthenticationError ==
  ( /\ ord.impl = "mock" /\ ord.fn \in Retrievals
    /\ 401 \in ord.failed /\ ord.pc = "done" )
  => ( /\ ord.outcome.kind = "error"
       /\ ord.outcome.err = "AuthenticationFailed" )

\* C12 (as claimed): after a 429 of the order endpoint no request to the order
\* endpoint is pending or sent any more, and the retrieval ends with the
\* rate-limited error and nothing synthetic.
C12_RateLimited ==
  ( /\ ord.impl \in CappedImpls /\ ord.fn \in Retrievals
    /\ 429 \in ord.failed )
  => ( /\ ord.pc \notin {"accessCheck", "rdt", "page"}
       /\ ord.pc = "done" =>
            /\ ord.outcome.kind = "error"
            /\ ord.outcome.err = "RateLimited"
            /\ ~ord.outcome.synthetic )

\* C13 (as claimed): a retrieval whose order-endpoint request failed without an
\* HTTP status ends with the plain failure and never with synthetic data.
C13_NetworkFailure ==
  ( /\ ord.impl = "mock" /\ ord.fn \in Retrievals
    /\ NoStatus \in ord.failed /\ ord.pc = "done" )
  => ( /\ ord.outcome.kind = "error"
       /\ ord.outcome.err = "Failed"
       /\ ~ord.outcome.synthetic )

\* C14 (as claimed): every result made of generated orders, or counting them,
\* carries the demo-data label.
C14_SyntheticLabelled ==
  (ord.pc = "done" /\ ord.outcome.synthetic) => ord.outcome.labelled

\* the implementations that ask for a restricted-data token
ImplsAskingRdt == {"mock", "fixed", "rdt"}

\* C15 (as claimed): when the restricted-data-token request has failed, the
\* retrieval does not end before an order request is sent, and the order
\* requests carry the base access token.
C15_RdtFailureAbsorbed ==
  ( /\ ord.impl \in ImplsAskingRdt /\ ord.fn \in Retrievals
    /\ ord.rdtFailed )
  => ( /\ ~(ord.pc = "done" /\ ord.pageRequests = 0)
       /\ ord.pageRequests > 0 => ord.tokenSent = "base" )

\* C16 (as claimed): against one upstream, the orderCount of a GET /orders
\* response equals the number of its orders.
C16_CountIsLength ==
  ( /\ ord.fn = "getOrderCount" /\ ord.pc = "done"
    /\ ord.routeOrders # NoResult )
  => ( /\ ord.outcome.kind = "count"
       /\ ord.outcome.n = ord.routeOrders )

\* ------------------------------------------------ claims, connect and disconnect

C18_CallbackErrorAborts ==
  \A r \in Requests :
    (req[r].kind \in CallbackKinds /\ req[r].query.error) =>
      /\ req[r].exchangeCalls = 0
      /\ req[r].pc = "done"
      /\ req[r].saves = 0
      /\ req[r].dirty = {}
      /\ req[r].user = req[r].loaded

C20_CreatedPopulated ==
  \A r \in Requests :
    (req[r].kind \in CallbackKinds \cup EnsureKinds /\ req[r].tokenData # NoTokenData) =>
      /\ req[r].user.tokenExpiresAt = req[r].receivedAt + req[r].tokenData.expires_in
      /\ req[r].kind \in CallbackKinds =>
           /\ req[r].user.accessToken # Absent
           /\ req[r].user.refreshToken # Absent
           /\ req[r].user.tokenExpiresAt # Absent

\* ------------------------------------------------ claims, failures at the routes

\* C21 (as claimed): a GET /orders whose refresh failed is answered with the
\* reconnect-required status (401), which is not the status of a generic
\* failure, of a rate limit or of an access denial.
C21_RefreshFailureReconnect ==
  \A r \in Requests :
    (req[r].kind = "orders" /\ req[r].pc = "done" /\ req[r].err = "RefreshFailed") =>
      /\ Response(req[r]) = 401
      /\ Response(req[r]) # 500
      /\ Response(req[r]) # OrdersErrorStatus(ServiceMessage("RateLimited"))
      /\ Response(req[r]) # OrdersErrorStatus(ServiceMessage("AccessDeniedFixed"))

\* what a failure is of: the status the spec's classes are answered with
Classification(e) ==
  CASE e = "NotConnected" -> 400
    [] e \in {"NoRefreshToken", "RefreshFailed", "AuthenticationFailed"} -> 401
    [] e \in {"AccessDenied", "AccessDeniedFixed"} -> 403
    [] e = "RateLimited" -> 429
    [] OTHER -> 500

\* C22 (as claimed): a GET /status or GET /orders in which a failure occurred
\* is answered with that failure, its classification preserved.
C22_NoFailureDiscarded ==
  \A r \in Requests :
    (req[r].kind \in EnsureKinds /\ req[r].pc = "done" /\ req[r].err # "none") =>
      Response(req[r]) = Classification(req[r].err)

\* ------------------------------------------------ claims, functions of the services

\* C23 (as claimed): INR / 450.00 is formatted as "INR 450.00", and an order
\* without OrderTotal, or without its Amount or its CurrencyCode, as "N/A".
C23_AmountFormat ==
  (fx.fn = "formatOrder" /\ fx.pc = "done") =>
    LET total == fx.arg.OrderTotal
    IN  /\ (total.present /\ total.CurrencyCode = "INR" /\ total.Amount = "450.00")
              => fx.out.amount = <<"INR", " ", "450.00">>
        /\ (~total.present \/ total.Amount = Undefined \/ total.CurrencyCode = Undefined)
              => fx.out.amount = <<"N/A">>

\* the statuses of an OrderRecord
RecordStatuses == {"Shipped", "Pending", "Delivered", "Cancelled", "Unknown"}

\* C24 (as claimed): the status of every formatted order is one of Shipped,
\* Pending, Delivered, Cancelled, Unknown.
C24_StatusInFixedSet ==
  (fx.fn = "formatOrder" /\ fx.impl = "mock" /\ fx.pc = "done") =>
    fx.out.status \in RecordStatuses

\* C25 (as claimed): getBaseUrl returns the URL of the region and environment
\* for na, eu and fe, and fails with the invalid-region error for every other
\* region, in every module.
C25_BaseUrl ==
  (fx.fn = "getBaseUrl" /\ fx.pc = "done") =>
    IF fx.arg.region \in {"na", "eu", "fe"}
      THEN /\ fx.out.kind = "value"
           /\ fx.out.value = <<(IF fx.arg.sandbox THEN "https://sandbox.sellingpartnerapi-"
                                                   ELSE "https://sellingpartnerapi-"),
                               fx.arg.region, ".amazon.com">>
      ELSE ToLowerCase(fx.arg.region) \notin {"na", "eu", "fe"} =>
             (fx.out.kind = "error" /\ fx.out.error = "Invalid region")

\* C26 (as claimed): with a required key unset, each operation fails with the
\* configuration error itself, and no request is sent.
C26_ConfigurationError ==
  ( /\ fx.fn \in OAuthOperations /\ fx.pc = "done" /\ fx.arg # {}
    /\ (fx.impl = "mock" \/ fx.fn = "exchangeCode") ) =>
    /\ fx.out.kind = "error"
    /\ ~fx.out.requestSent
    /\ fx.out.msg = <<ConfigMessage>>

\* ------------------------------------------------ claims, diagnostics and listing

\* C27 (as claimed): no step of a GET /debug or GET /test-connection changes
\* the stored access token, refresh token or expiry.
C27_DiagnosticsReadOnly ==
  [][\A r \in Requests :
       (req[r].kind \in {"debug", "testconn"} /\ req'[r] # req[r]) =>
         /\ db'.accessToken = db.accessToken
         /\ db'.refreshToken = db.refreshToken
         /\ db'.tokenExpiresAt = db.tokenExpiresAt]_vars

\* C28: within one getRecentOrders retrieval a request is sent only when every
\* earlier one has been answered, the first request carries no NextToken, every
\* later one carries the NextToken of the answer just before it, and every
\* request carries the restricted token if one was obtained, else the access token.
C28_SequentialPages ==
  fx.fn = "getRecentOrders" =>
    /\ Len(fx.requests) - Len(fx.answers) \in {0, 1}
    /\ fx.pc = "send" => Len(fx.requests) = Len(fx.answers)
    /\ \A i \in 1..Len(fx.requests) :
         /\ i = 1 => fx.requests[i].NextToken = Absent
         /\ i > 1 => /\ fx.answers[i - 1].NextToken # Absent
                      /\ fx.requests[i].NextToken = fx.answers[i - 1].NextToken
         /\ fx.requests[i].header = (IF fx.hasRdt THEN "rdt" ELSE "base")

C28_Witness ==
  /\ fx.fn = "getRecentOrders" /\ fx.pc = "done" /\ fx.kind = "orders"
  /\ fx.hasRdt
  /\ Len(fx.requests) = 3
  /\ fx.requests[2].NextToken # fx.requests[3].NextToken

\* the orders of the payloads, one payload after the other
RECURSIVE Flatten(_)
Flatten(payloads) ==
  IF payloads = <<>> THEN <<>>
  ELSE Head(payloads).Orders \o Flatten(Tail(payloads))

\* how many elements of array carry the date
CountOf(array, date) == Cardinality({i \in 1..Len(array) : array[i].orderDate = date})

\* C29: the orders getRecentOrders returns are the orders of the pages it
\* received, page after page and in each page's order, none left out and none
\* twice; what generateMockOrderData returns is what it pushed, newest first.
C29_UpstreamOrderKept ==
  /\ (fx.fn = "getRecentOrders" /\ fx.pc = "done" /\ fx.kind = "orders") =>
       LET upstream == Flatten(fx.answers)
       IN  /\ Len(fx.out) = Len(upstream)
           /\ \A i \in 1..Len(upstream) : fx.out[i].orderId = upstream[i].AmazonOrderId
  /\ (fx.fn = "generateMockOrderData" /\ fx.pc = "done") =>
       /\ Len(fx.out) = Len(fx.arg)
       /\ {fx.out[i] : i \in 1..Len(fx.out)} = {fx.arg[i] : i \in 1..Len(fx.arg)}
       /\ \A d \in MockDates : CountOf(fx.out, d) = CountOf(fx.arg, d)
       /\ \A i \in 1..(Len(fx.out) - 1) : fx.out[i].orderDate >= fx.out[i + 1].orderDate

C29_Witness ==
  /\ fx.fn = "getRecentOrders" /\ fx.pc = "done" /\ fx.kind = "orders"
  /\ Len(fx.answers) = 3
  /\ Len(fx.answers[1].Orders) = 2
  /\ fx.answers[1].Orders[1] # fx.answers[1].Orders[2]
  /\ Len(fx.answers[2].Orders) = 1
  /\ Len(fx.out) > 3

\* C30 (as claimed): the stored credential carries connectedAt once a GET
\* /callback has saved its exchange, and while the account stays connected no
\* later step changes it.
C30_ConnectedAtSetOnce ==
  [][/\ \A r \in Requests :
          (req[r].kind = "callback" /\ req[r].pc = "saving" /\ req'[r].pc = "done") =>
            ConnectedAt(db') # {}
     /\ (ConnectedAt(db) # {} /\ db'.accessToken # Absent) =>
            ConnectedAt(db') = ConnectedAt(db)]_vars

\* ------------------------------------------------ claims, interleavings and failures

\* access token, refresh token and expiry are all there
Complete(doc) ==
  doc.accessToken # Absent /\ doc.refreshToken # Absent /\ doc.tokenExpiresAt # Absent

\* C31 (as claimed): when a GET /orders or GET /status that was refreshing
\* saves after a disconnect has cleared the credential, the stored credential
\* is still entirely absent, or else complete.
C31_AbsentOrComplete ==
  [][\A r \in Requests :
       ( /\ req[r].kind \in EnsureKinds
         /\ req[r].pc = "saving"
         /\ req'[r].saves = req[r].saves + 1
         /\ db = NoAuth )
       => (db' = NoAuth \/ Complete(db'))]_vars

\* C37: the step in which the refresh of a GET /orders or GET /status fails
\* leaves the stored credential as it was, and the request ends there: it has
\* saved nothing and sends nothing to the order endpoint, then or later.
C37_RefreshFailureFrame ==
  [][\A r \in Requests :
       /\ ( /\ req[r].kind \in EnsureKinds
            /\ req[r].pc = "refreshing"
            /\ req'[r].err = "RefreshFailed" )
          => /\ db' = db
             /\ req'[r].pc = "done"
             /\ req'[r].saves = 0 /\ req'[r].dirty = {}
             /\ ~req'[r].presented
       /\ (req[r].kind \in EnsureKinds /\ req[r].err = "RefreshFailed")
          => \/ req'[r].kind = "none"
             \/ (req'[r].pc = "done" /\ req'[r].saves = 0 /\ ~req'[r].presented)]_vars

C37_Witness ==
  \E r \in Requests :
    /\ req[r].kind \in EnsureKinds
    /\ req[r].pc = "done"
    /\ req[r].err = "RefreshFailed"
    /\ req[r].refreshCalls = 1
    /\ db = req[r].loaded
    /\ Complete(db)

\* The account was never linked, or no exchange has been saved since the last
\* disconnect: every saved exchange writes sellerId, a disconnect clears it,
\* and nothing else assigns it.
Unlinked(doc) == doc.sellerId = Absent

\* C38 (as claimed): a GET /orders that starts on such an account answers
\* not-connected, a GET /status reports connected = false and no order count,
\* and neither calls the token endpoint or the external API.
C38_UnlinkedNotConnected ==
  \A r \in Requests :
    (req[r].kind \in EnsureKinds /\ Unlinked(req[r].loaded)) =>
      /\ req[r].pc = "done"
      /\ req[r].refreshCalls = 0
      /\ ~req[r].presented
      /\ req[r].accessToken = Absent
      /\ req[r].kind = "orders" => (req[r].err = "NotConnected" /\ Response(req[r]) = 400)
      /\ req[r].kind = "status" => req[r].err = "none"

\* the later issued of two tokens: the token endpoint numbers them as it issues them
Later(a, b) == IF a > b THEN a ELSE b

\* C32 (as claimed): when two requests of the account have both refreshed,
\* each receiving a new refresh token, and both have saved, the stored refresh
\* token is the later issued of the two.
C32_LatestRotationStored ==
  \A r, s \in Requests :
    ( /\ r # s
      /\ req[r].kind \in EnsureKinds /\ req[s].kind \in EnsureKinds
      /\ req[r].saves > 0 /\ req[s].saves > 0
      /\ req[r].tokenData.refresh_token # Absent
      /\ req[s].tokenData.refresh_token # Absent
      /\ Concurrent(r, s) )
    => db.refreshToken = Later(req[r].tokenData.refresh_token, req[s].tokenData.refresh_token)

\* C36 (as claimed): a GET /orders or GET /status that is waiting for the
\* token endpoint eventually completes.
C36_EventuallyCompletes ==
  \A r \in Requests :
    (req[r].kind \in EnsureKinds /\ req[r].pc = "refreshing") ~> (req[r].pc \in {"done", "idle"})

\* C35 (as claimed): once the caller has cancelled the retrieval, no further
\* page request is sent.
C35_NoRequestAfterCancel ==
  [][(fx.fn = "getRecentOrders" /\ fx.cancelled) =>
       Len(fx'.requests) = Len(fx.requests)]_vars

\* C34 (as claimed): the state handed out by GET /auth-url decodes at GET
\* /callback to the userId that started the flow, and carries the timestamp of
\* its creation; a callback whose state yields no userId is rejected and
\* exchangeCode is not called.
C34_StateRoundTrip ==
  (fx.fn = "authState" /\ fx.pc = "done") =>
    /\ fx.query = fx.state =>
         /\ fx.out.exchange
         /\ fx.out.userId = fx.arg.userId
         /\ Member(FromBase64(fx.state), "timestamp") = fx.arg.timestamp
    /\ fx.out.userId = Undefined => (~fx.out.exchange /\ fx.out.status # 200)

\* C33: a step changes the stored credential of a user only if it is the save
\* of a request that this user made (for a callback: of the flow this user
\* started); the credentials of all other users stay as they are.
C33_AccountsIsolated ==
  [][\A u \in UserIds :
       db'[u] # db[u] =>
         \E r \in Requests :
           /\ req[r].pc = "saving"
           /\ req'[r].saves = req[r].saves + 1
           /\ req[r].caller = u
           /\ \A v \in UserIds \ {u} : db'[v] = db[v]]_vars

C33_Witness ==
  \E r \in Requests :
    /\ req[r].kind = "orders"
    /\ req[r].caller = "u1"
    /\ req[r].refreshCalls = 1
    /\ req[r].saves = 1
    /\ db["u1"].accessToken = req[r].tokenData.access_token
    /\ Complete(db["u2"])
    /\ db["u2"].accessToken # db["u1"].accessToken

====
